---- MODULE Spec2Model ----
(***************************************************************************)
(* Model of the OpenVoice server (src/server.py): the three request        *)
(* handlers clone_voice, speak and list_voices running concurrently (one   *)
(* thread per request) over a shared file system.                          *)
(*                                                                         *)
(* Strings are sequences of tokens (<<"voice_", "tmpa", ".pth">>), a file  *)
(* is a sequence of chunks, and a write to a file is open (truncate),      *)
(* then one chunk at a time at the writer's own offset, as the operating   *)
(* system does it.                                                         *)
(***************************************************************************)
EXTENDS Integers, Sequences, FiniteSets, Bags, TLC

(* ------------------------------ bounds --------------------------------- *)
\* number of request threads that can be in flight together
MaxReqs == 2
\* number of clone and speak requests started in one behaviour
MaxOps == 2
\* number of chunks a serialized artifact is written in
FileLen == 1

(* ------------------------------ inputs --------------------------------- *)
\* names the caller gives the uploaded sample (never read by the server)
SampleNames == {<<"alice", ".wav">>}
Audios == {"speech", "silence"}
Embeddings == {"e1", "e2"}
\* names tempfile.NamedTemporaryFile can draw
TmpStems == {"tmpa", "tmpb"}
Texts == {"", "hello"}
\* speed multipliers a caller can send (1.0 is the default of line 110)
Speeds == {0, 1}
\* the synthesizer's declared speaker set, in declaration order
SpeakerSets == {<<"EN-US", "EN-BR">>, <<"EN-BR", "EN-US">>}

None == [kind |-> "none"]
Corrupt == [kind |-> "corrupt"]
Hole == [kind |-> "hole"]

(* ------------------------------ strings -------------------------------- *)
Sep == "/"
ExtTokens == {".wav", ".pth"}
OUTPUT_DIR == <<"outputs">>
CHECKPOINT_VERSION == "v2"
BASE_SE_PATH == <<"checkpoints_v2", Sep, "base_speakers", Sep, "ses", Sep, "en-us", ".pth">>
TMP_TTS == <<"tmp_tts", ".wav">>

\* os.path.join(a, b)
PathJoin(a, b) == IF Len(b) > 0 /\ b[1] = Sep THEN b ELSE a \o <<Sep>> \o b

LastIndexIn(s, toks) ==
  IF \E i \in 1..Len(s) : s[i] \in toks
  THEN CHOOSE i \in 1..Len(s) : s[i] \in toks /\ \A j \in (i+1)..Len(s) : s[j] \notin toks
  ELSE 0

\* os.path.basename(p)
Basename(p) == SubSeq(p, LastIndexIn(p, {Sep}) + 1, Len(p))

\* name.rsplit('.', 1)[0]
RSplitExt(name) ==
  IF LastIndexIn(name, ExtTokens) = 0 THEN name
  ELSE SubSeq(name, 1, LastIndexIn(name, ExtTokens) - 1)

\* f.replace(tok, "")
RECURSIVE Replace(_, _)
Replace(f, tok) ==
  IF f = <<>> THEN <<>>
  ELSE IF Head(f) = tok THEN Replace(Tail(f), tok)
  ELSE <<Head(f)>> \o Replace(Tail(f), tok)

StartsWith(f, tok) == Len(f) > 0 /\ f[1] = tok
EndsWith(f, tok) == Len(f) > 0 /\ f[Len(f)] = tok

\* the name tempfile.NamedTemporaryFile(suffix=".wav") gives a file
TmpPath(stem) == <<Sep, "tmp", Sep, stem, ".wav">>

\* os.path.join(OUTPUT_DIR, f"{voice_id}.pth")
EmbeddingPath(voice_id) == PathJoin(OUTPUT_DIR, voice_id \o <<".pth">>)
\* os.path.join(OUTPUT_DIR, "tmp_tts.wav")
SrcPath == PathJoin(OUTPUT_DIR, TMP_TTS)
\* the output written under the name of the voice's embedding file
OutputPathInStore(voice_id) == PathJoin(OUTPUT_DIR, voice_id \o <<".pth">>)
\* os.path.join(OUTPUT_DIR, f"output_{voice_id}.wav")
OutputPath(voice_id) == PathJoin(OUTPUT_DIR, <<"output_">> \o voice_id \o <<".wav">>)

(* ------------------------------- files --------------------------------- *)
\* torch.save / soundfile.write: the artifact d as the chunks of its file
Serialize(d) == [i \in 1..FileLen |-> [kind |-> "chunk", of |-> d, at |-> i]]

\* torch.load / the converter's reader: the artifact a file holds, Corrupt
\* for a file that is not the complete serialization of one artifact
Parse(content) ==
  IF Len(content) = FileLen
     /\ (\A i \in 1..FileLen : content[i].kind = "chunk" /\ content[i].at = i)
     /\ (\A j \in 1..FileLen : content[j].of = content[1].of)
  THEN content[1].of
  ELSE Corrupt

\* write(2) of one chunk at offset pos of a file (pos counts from 1)
WriteAt(content, pos, chunk) ==
  [i \in 1..(IF Len(content) > pos THEN Len(content) ELSE pos) |->
     IF i = pos THEN chunk ELSE IF i <= Len(content) THEN content[i] ELSE Hole]

\* the directories there are: the working directory (<<>>), OUTPUT_DIR
\* (line 45) and those of the provisioned checkpoints
Dirs ==
  { <<>>, OUTPUT_DIR, <<"checkpoints_v2">>,
    <<"checkpoints_v2", Sep, "base_speakers">>,
    <<"checkpoints_v2", Sep, "base_speakers", Sep, "ses">> }
\* what a path through a directory that does not exist resolves to
NoPath == <<"ENOENT">>
ParentDir(d) ==
  IF LastIndexIn(d, {Sep}) = 0 THEN <<>> ELSE SubSeq(d, 1, LastIndexIn(d, {Sep}) - 1)
ChildOf(d, c) == IF d = <<>> THEN c ELSE d \o <<Sep>> \o c

\* the operating system's walk of a relative path from the directory dir:
\* a component of the path is the tokens between two separators, ".."
\* leads to the parent, any other component but the last names a directory
RECURSIVE Walk(_, _)
Walk(dir, rest) ==
  LET n == IF \E i \in 1..Len(rest) : rest[i] = Sep
           THEN CHOOSE i \in 1..Len(rest) : rest[i] = Sep /\ \A j \in 1..(i-1) : rest[j] # Sep
           ELSE 0
      c == IF n = 0 THEN rest ELSE SubSeq(rest, 1, n - 1)
  IN IF n = 0 THEN ChildOf(dir, c)
     ELSE IF c = <<"..">>
     THEN IF dir = <<>> THEN NoPath ELSE Walk(ParentDir(dir), SubSeq(rest, n + 1, Len(rest)))
     ELSE IF ChildOf(dir, c) \in Dirs
     THEN Walk(ChildOf(dir, c), SubSeq(rest, n + 1, Len(rest)))
     ELSE NoPath

\* the file a path names (absolute paths of the model are /tmp/<name>)
Resolve(p) == IF Len(p) > 0 /\ p[1] = Sep THEN p ELSE Walk(<<>>, p)
\* the file a path names among files (files are kept under the path the walk
\* yields, and such a path names the file itself)
FileOf(files, p) == IF p \in DOMAIN files THEN p ELSE Resolve(p)

Exists(files, p) == FileOf(files, p) \in DOMAIN files
Contents(files, p) == files[FileOf(files, p)]
Put(files, p, c) ==
  LET f == FileOf(files, p)
  IN [q \in DOMAIN files \cup {f} |-> IF q = f THEN c ELSE files[q]]
Unlink(files, p) == [q \in DOMAIN files \ {FileOf(files, p)} |-> files[q]]

\* os.listdir(OUTPUT_DIR): the names of the files directly in the directory
ListDir(files) ==
  { SubSeq(p, Len(OUTPUT_DIR) + 2, Len(p)) :
      p \in { q \in DOMAIN files :
                /\ Len(q) > Len(OUTPUT_DIR) + 1
                /\ SubSeq(q, 1, Len(OUTPUT_DIR) + 1) = OUTPUT_DIR \o <<Sep>>
                /\ \A i \in (Len(OUTPUT_DIR) + 2)..Len(q) : q[i] # Sep } }

\* list_voices: the names starting with voice_ and ending with .pth, less .pth
VoicesOfUnfiltered(files) == { Replace(f, ".pth") : f \in ListDir(files) }
VoicesOf(files) ==
  { Replace(f, ".pth") : f \in { g \in ListDir(files) : StartsWith(g, "voice_") /\ EndsWith(g, ".pth") } }

\* what the store holds as seen through list_voices and torch.load
StoreView(files) ==
  [k \in VoicesOf(files) |->
     IF Exists(files, EmbeddingPath(k)) THEN Parse(Contents(files, EmbeddingPath(k))) ELSE None]

(* --------------------------- collaborators ----------------------------- *)
Embedding(e) == [kind |-> "se", id |-> e]
Sample(a) == [kind |-> "audio", id |-> a]
BaseSE == [kind |-> "se", id |-> "en-us"]
\* the Base Speaker Reference provisioned for a base speaker, under
\* checkpoints_v2/base_speakers/ses/<speaker in lower case>.pth
BaseSEOf(speaker) ==
  [kind |-> "se", id |-> CASE speaker = "EN-US" -> "en-us"
                           [] speaker = "EN-BR" -> "en-br"
                           [] OTHER -> "none"]

\* se_extractor.get_se names the sample after the path it is handed:
\* basename without extension, converter version, hash of the audio
AudioName(path, audio) == RSplitExt(Basename(path)) \o <<"_", CHECKPOINT_VERSION, "_", audio>>

\* f"voice_{audio_name}"
VoiceId(audio_name) == <<"voice_">> \o audio_name

\* tts_model.tts_to_file: the base waveform of a text
Synth(text, speaker, speed) == [kind |-> "wav", text |-> text, speaker |-> speaker, speed |-> speed]

\* tone_color_converter.convert: the re-voiced waveform
Convert(wave, src_se, tgt_se) == [kind |-> "out", wave |-> wave, src |-> src_se, tgt |-> tgt_se]

\* the voice_id strings a speak request is sent with
VoiceIds ==
  { VoiceId(AudioName(TmpPath(s), "speech")) : s \in {"tmpa"} }
    \cup {<<"default">>}
    \cup {<<"..", Sep>> \o RSplitExt(BASE_SE_PATH)}

\* the bodies a speak request is sent with: each text, and each other
\* speed and voice_id with the text "hello"
SpeakInputs ==
  { in \in [text : Texts, voice_id : VoiceIds, speed : Speeds] :
      \/ in.voice_id = VoiceId(AudioName(TmpPath("tmpa"), "speech")) /\ in.speed = 1
      \/ in.text = "hello" /\ (in.speed = 1 \/ in.voice_id = VoiceId(AudioName(TmpPath("tmpa"), "speech"))) }

(* ------------------------------- state --------------------------------- *)
VARIABLES
  fs,       \* the file system: path -> chunks of the file
  req,      \* the requests in flight, each with its locals: a bag, as the
            \* thread that handles a request is of no consequence
  resp,     \* the response the last step sent, with the history of its
            \* request; Idle when the step sent none
  ops,      \* clone and speak requests started so far
  spk2id,   \* tts_model.hps.data.spk2id, the declared speakers in order
  stored,   \* history: key -> embedding of the clone that completed its
            \* write of the key, with no write to the key since
  listing   \* history: the last list_voices response (n = 1) or the last two
            \* (n = 2), given with no clone request starting, running or
            \* finishing since the first of them, and whether a speak
            \* request took a step between the two

vars == <<fs, req, resp, ops, spk2id, stored, listing>>

Idle ==
  [kind |-> "idle", pc |-> "idle",
   name |-> <<>>, audio |-> "", tmp_path |-> <<>>,
   text |-> "", speed |-> 0, voice_id |-> <<>>,
   target_se |-> None, speaker |-> "", out |-> None, pos |-> 0,
   status |-> 0, body |-> <<>>,
   \* history of the request
   failedAt |-> "", ttsCalls |-> 0, convCalls |-> 0,
   tgtArg |-> None, srcArg |-> None, wave |-> None,
   resolved |-> "", storedAtLoad |-> None, snap |-> <<>>, changed |-> FALSE,
   overlap |-> FALSE, tmpLeft |-> FALSE, prior |-> None,
   ttsOk |-> FALSE]

InFlight == BagToSet(req)
CloneInFlight == \E q \in InFlight : q.kind = "clone"
\* a request is taken when a thread is free
CanStart == ops < MaxOps /\ BagCardinality(req) < MaxReqs

\* no list_voices response since a clone request last started, ran or finished
NoListing == [n |-> 0, prev |-> {}, last |-> {}, spoke |-> FALSE]
\* a step of a clone request ends the run of responses recorded in listing
CloneSeen == listing' = NoListing
\* a step of a speak request after a recorded response: that response is
\* now the first of a pair with a speak request at work in between
SpeakSeen ==
  listing' = IF listing.n >= 1
             THEN [n |-> 1, prev |-> {}, last |-> listing.last, spoke |-> TRUE]
             ELSE listing

\* a step that sends no response
Silent == resp' = Idle

\* the request rq goes on as rn
Continue(rq, rn) ==
  /\ req' = (req (-) SetToBag({rq})) (+) SetToBag({rn})
  /\ Silent

\* a new request is in flight
Accept(rn) ==
  /\ req' = req (+) SetToBag({rn})
  /\ Silent

\* the response leaves the handler, without the locals that are not part of
\* the response or of its history
Send(rs) ==
  resp' = [rs EXCEPT !.pc = "done", !.pos = 0, !.out = None, !.snap = <<>>,
                     !.tmp_path = <<>>]

\* the request rq ends with the response rs
Respond(rq, rs) ==
  /\ req' = req (-) SetToBag({rq})
  /\ Send(rs)

\* the voices a previous run of the server can have left in OUTPUT_DIR
InitialStores ==
  { <<>> } \cup
  { [k \in {VoiceId(AudioName(TmpPath(s), "speech"))} |-> Embedding(e)] :
      s \in {"tmpa"}, e \in {"e1"} }

\* the configurations the server starts in: the voices left in OUTPUT_DIR
\* and the speaker set the synthesizer declares
Configs ==
  { c \in [store : InitialStores, speakers : SpeakerSets] :
      (c.store = <<>>) <=> (c.speakers[1] # "EN-US") }

\* init_models: the base speaker reference is provisioned, OUTPUT_DIR exists
Init ==
  /\ \E c \in Configs :
       /\ fs = [p \in {BASE_SE_PATH} \cup {EmbeddingPath(k) : k \in DOMAIN c.store} |->
                 IF p = BASE_SE_PATH THEN Serialize(BaseSE)
                 ELSE Serialize(c.store[CHOOSE k \in DOMAIN c.store : EmbeddingPath(k) = p])]
       /\ stored = c.store
       /\ spk2id = c.speakers
  /\ req = EmptyBag
  /\ resp = Idle
  /\ ops = 0
  /\ listing = NoListing

(* ---------------------------- clone_voice ------------------------------ *)
\* Steps of one request that touch nothing another request can see are
\* taken together with the step before them.

\* lines 61-62: no 'audio' part in the request
CloneNoFile ==
  /\ CanStart
  /\ req' = req
  /\ Send([Idle EXCEPT !.kind = "clone", !.status = 400, !.failedAt = "validate",
                       !.overlap = CloneInFlight])
  /\ ops' = ops + 1
  /\ CloneSeen
  /\ UNCHANGED <<fs, spk2id, stored>>

\* the request as it stands after lines 64-67: NamedTemporaryFile has
\* created a file under a name no file has
Upload(name, audio, stem) ==
  [Idle EXCEPT !.kind = "clone", !.name = name, !.audio = audio,
               !.tmp_path = TmpPath(stem), !.snap = StoreView(fs),
               !.overlap = CloneInFlight]

\* the requests in flight, the clone requests among them marked as having
\* run together with another clone request (no two of them are equal, as
\* their temporary files differ)
Overlapped ==
  LET mark(q) == IF q.kind = "clone" THEN [q EXCEPT !.overlap = TRUE] ELSE q
  IN [m \in { mark(q) : q \in InFlight } |->
        CopiesIn(CHOOSE q \in InFlight : mark(q) = m, req)]

\* lines 64-69 with line 68, audio_file.save(tmp.name), raising: the with
\* block is outside the try, nothing unlinks the file
CloneSaveFail ==
  /\ CanStart
  /\ \E name \in SampleNames, audio \in Audios, stem \in TmpStems, n \in 0..(FileLen - 1) :
       /\ ~Exists(fs, TmpPath(stem))
       /\ fs' = Put(fs, TmpPath(stem), SubSeq(Serialize(Sample(audio)), 1, n))
       /\ req' = Overlapped
       /\ Send([Upload(name, audio, stem) EXCEPT
                  !.status = 500, !.failedAt = "save",
                  !.tmpLeft = Exists(fs', TmpPath(stem)),
                  !.changed = StoreView(fs') # StoreView(fs)])
  /\ ops' = ops + 1
  /\ CloneSeen
  /\ UNCHANGED <<spk2id, stored>>

\* lines 64-80: the upload is saved, get_se finds speech in it, the key is
\* made of the name get_se returns
CloneStart ==
  /\ CanStart
  /\ \E name \in SampleNames, stem \in TmpStems, e \in Embeddings :
       LET audio == "speech"
           tmp == Put(fs, TmpPath(stem), Serialize(Sample(audio)))
       IN /\ ~Exists(fs, TmpPath(stem))
          /\ Parse(Contents(tmp, TmpPath(stem))) = Sample("speech")
          /\ fs' = tmp
          /\ req' = Overlapped (+)
                    SetToBag({[Upload(name, audio, stem) EXCEPT
                                 !.pc = "open", !.target_se = Embedding(e),
                                 !.voice_id = VoiceId(AudioName(TmpPath(stem), audio)),
                                 !.prior = LET k == VoiceId(AudioName(TmpPath(stem), audio))
                                           IN IF k \in DOMAIN stored THEN stored[k] ELSE None]})
  /\ Silent
  /\ ops' = ops + 1
  /\ CloneSeen
  /\ UNCHANGED <<spk2id, stored>>

\* lines 64-77 with get_se raising (no speech detected), caught at line 90,
\* then lines 92-94
CloneExtractFail ==
  /\ CanStart
  /\ \E name \in SampleNames, audio \in Audios \ {"speech"}, stem \in TmpStems :
       LET tmp == Put(fs, TmpPath(stem), Serialize(Sample(audio)))
       IN /\ ~Exists(fs, TmpPath(stem))
          /\ Parse(Contents(tmp, TmpPath(stem))) # Sample("speech")
          /\ fs' = Unlink(tmp, TmpPath(stem))
          /\ req' = Overlapped
          /\ Send([Upload(name, audio, stem) EXCEPT
                     !.status = 500, !.failedAt = "extract",
                     !.tmpLeft = Exists(fs', TmpPath(stem)),
                     !.changed = StoreView(fs') # StoreView(fs)])
  /\ ops' = ops + 1
  /\ CloneSeen
  /\ UNCHANGED <<spk2id, stored>>

\* the clean-up also removing the embedding file after a failure
FinallyRollsBack(rq, rs, files) ==
  /\ fs' = IF rs.status = 200 THEN Unlink(files, rq.tmp_path)
           ELSE Unlink(Unlink(files, rq.tmp_path), EmbeddingPath(rq.voice_id))
  /\ Respond(rq, [rs EXCEPT !.tmpLeft = Exists(fs', rq.tmp_path),
                            !.changed = StoreView(fs') # rq.snap])

\* lines 92-94 and the response built at line 84 or 91: os.unlink(tmp_path)
Finally(rq, rs, files) ==
  /\ fs' = Unlink(files, rq.tmp_path)
  /\ Respond(rq, [rs EXCEPT !.tmpLeft = Exists(fs', rq.tmp_path),
                            !.changed = StoreView(fs') # rq.snap])

\* line 82: torch.save opens embedding_path for writing, which truncates it
CloneOpen(rq) ==
  /\ rq.kind = "clone" /\ rq.pc = "open"
  /\ fs' = Put(fs, EmbeddingPath(rq.voice_id), <<>>)
  /\ Continue(rq, [rq EXCEPT !.pc = "write", !.pos = 1])
  /\ stored' = [k \in DOMAIN stored \ {rq.voice_id} |-> stored[k]]
  /\ CloneSeen
  /\ UNCHANGED <<ops, spk2id>>

\* line 82 raising before the file is opened (medium unwritable), caught at
\* line 90, then lines 92-94
CloneOpenFail(rq) ==
  /\ rq.kind = "clone" /\ rq.pc = "open"
  /\ Finally(rq, [rq EXCEPT !.status = 500, !.failedAt = "open"], fs)
  /\ CloneSeen
  /\ UNCHANGED <<ops, spk2id, stored>>

\* line 82: torch.save writes the next chunk; after the last one, lines
\* 84-88 and 92-94
CloneWrite(rq) ==
  /\ rq.kind = "clone" /\ rq.pc = "write"
  /\ LET path == EmbeddingPath(rq.voice_id)
         last == rq.pos = FileLen
         written == Put(fs, path, WriteAt(Contents(fs, path), rq.pos, Serialize(rq.target_se)[rq.pos]))
     IN /\ IF last
           THEN Finally(rq, [rq EXCEPT !.status = 200], written)
           ELSE fs' = written /\ Continue(rq, [rq EXCEPT !.pos = rq.pos + 1])
        /\ stored' = [k \in (DOMAIN stored \ {rq.voice_id})
                              \cup (IF last THEN {rq.voice_id} ELSE {}) |->
                        IF k = rq.voice_id THEN rq.target_se ELSE stored[k]]
  /\ CloneSeen
  /\ UNCHANGED <<ops, spk2id>>

\* line 82 raising part-way (disk full), caught at line 90, then lines 92-94
CloneWriteFail(rq) ==
  /\ rq.kind = "clone" /\ rq.pc = "write"
  /\ Finally(rq, [rq EXCEPT !.status = 500, !.failedAt = "write"], fs)
  /\ CloneSeen
  /\ UNCHANGED <<ops, spk2id, stored>>

(* ---------------------------- list_voices ------------------------------ *)
\* lines 157-161; the response is recorded while no clone request is in
\* flight, as the next of the responses given since a clone request last
\* ran: the first, or the one that follows it after a speak request took a
\* step (a response that is not recorded changes nothing and is no step)
ListVoices ==
  /\ ~CloneInFlight
  /\ listing.n = 0 \/ (listing.n = 1 /\ listing.spoke)
  /\ listing' = IF listing.n = 0
                THEN [n |-> 1, prev |-> {}, last |-> VoicesOf(fs), spoke |-> FALSE]
                ELSE [n |-> 2, prev |-> listing.last, last |-> VoicesOf(fs),
                      spoke |-> listing.spoke]
  /\ Silent
  /\ UNCHANGED <<fs, req, ops, spk2id, stored>>

(* -------------------------------- speak -------------------------------- *)
\* line 114: os.path.exists(embedding_path)
FoundAlways(files, voice_id) == TRUE
Found(files, voice_id) == Exists(files, EmbeddingPath(voice_id))

\* lines 103-106: no JSON body, or no 'text' in it
SpeakNoText ==
  /\ CanStart
  /\ req' = req
  /\ Send([Idle EXCEPT !.kind = "speak", !.status = 400, !.failedAt = "validate"])
  /\ ops' = ops + 1
  /\ SpeakSeen
  /\ UNCHANGED <<fs, spk2id, stored>>

\* the response to a request that ends in an exception (line 152, or the
\* framework's own for an exception outside the try)
RaiseSendsOutput(rs, stage) ==
  Send([rs EXCEPT !.status = 200, !.failedAt = stage,
                  !.body = IF Exists(fs, OutputPath(rs.voice_id))
                           THEN Contents(fs, OutputPath(rs.voice_id)) ELSE <<>>])
Raise(rs, stage) == Send([rs EXCEPT !.status = 500, !.failedAt = stage])

\* torch.load(path): the embedding the file holds, Corrupt when the call raises
LoadEmbeddingFromBase(files, path) == Parse(Contents(files, BASE_SE_PATH))
LoadEmbedding(files, path) == IF Exists(files, path) THEN Parse(Contents(files, path)) ELSE Corrupt

\* lines 108-117: read the request, look the embedding file up (404 when
\* there is none) and load it with torch.load, outside the try; lines
\* 121-128 for a speed of 0, which tts_to_file divides by before it does
\* anything else
SpeakStart ==
  /\ CanStart
  /\ \E in \in SpeakInputs :
       LET text == in.text
           voice_id == in.voice_id
           speed == in.speed
           path == EmbeddingPath(voice_id)
           se == LoadEmbedding(fs, path)
           rq == [Idle EXCEPT !.kind = "speak", !.text = text, !.voice_id = voice_id,
                              !.speed = speed,
                              !.resolved = IF Exists(fs, path) THEN "yes" ELSE "no"]
           rl == [rq EXCEPT !.target_se = se,
                            !.storedAtLoad = IF voice_id \in DOMAIN stored
                                             THEN stored[voice_id] ELSE None]
       IN IF ~Found(fs, voice_id)
          THEN req' = req /\ Send([rq EXCEPT !.status = 404, !.failedAt = "lookup"])
          ELSE IF se = Corrupt
          THEN req' = req /\ Raise(rl, "load")
          ELSE IF speed = 0
          THEN req' = req /\ Raise([rl EXCEPT !.ttsCalls = 1, !.speaker = spk2id[1]], "tts")
          ELSE Accept([rl EXCEPT !.pc = "tts"])
  /\ ops' = ops + 1
  /\ SpeakSeen
  /\ UNCHANGED <<fs, spk2id, stored>>

\* lines 121-128: first declared speaker, tts_to_file opens src_path
SpeakTTSOpen(rq) ==
  /\ rq.kind = "speak" /\ rq.pc = "tts"
  /\ fs' = Put(fs, SrcPath, <<>>)
  /\ Continue(rq, [rq EXCEPT !.pc = "ttswrite", !.speaker = spk2id[1],
                             !.ttsCalls = rq.ttsCalls + 1, !.pos = 1])
  /\ SpeakSeen
  /\ UNCHANGED <<ops, spk2id, stored>>

\* line 128: tts_to_file writes the next chunk of the base waveform
SpeakTTSWrite(rq) ==
  /\ rq.kind = "speak" /\ rq.pc = "ttswrite"
  /\ LET wav == Synth(rq.text, rq.speaker, rq.speed)
     IN /\ fs' = Put(fs, SrcPath, WriteAt(Contents(fs, SrcPath), rq.pos, Serialize(wav)[rq.pos]))
        /\ Continue(rq, [rq EXCEPT !.pos = rq.pos + 1,
                                   !.pc = IF rq.pos = FileLen THEN "convert" ELSE "ttswrite",
                                   !.ttsOk = (rq.pos = FileLen)])
  /\ SpeakSeen
  /\ UNCHANGED <<ops, spk2id, stored>>

\* line 128 raising and the request going on to the next stage
SpeakTTSFailIgnored(rq) ==
  /\ rq.kind = "speak" /\ rq.pc \in {"tts", "ttswrite"}
  /\ Continue(rq, [rq EXCEPT !.ttsCalls = 1, !.speaker = spk2id[1],
                             !.failedAt = "tts", !.pc = "convert"])
  /\ SpeakSeen
  /\ UNCHANGED <<fs, ops, spk2id, stored>>

\* line 128 raising, caught at line 151
SpeakTTSFail(rq) ==
  /\ rq.kind = "speak" /\ rq.pc \in {"tts", "ttswrite"}
  /\ req' = req (-) SetToBag({rq})
  /\ Raise([rq EXCEPT !.ttsCalls = 1, !.speaker = spk2id[1]], "tts")
  /\ SpeakSeen
  /\ UNCHANGED <<fs, ops, spk2id, stored>>

\* lines 131-141: load the base speaker embedding; the converter is called
\* and reads src_path, whatever the file holds by then (and raises when
\* output_path leads through a directory that does not exist)
SpeakConvertRead(rq) ==
  /\ rq.kind = "speak" /\ rq.pc = "convert"
  /\ LET source_se == LoadEmbedding(fs, BASE_SE_PATH)
         wav == Parse(Contents(fs, SrcPath))
         called == [rq EXCEPT !.wave = wav, !.convCalls = rq.convCalls + 1,
                              !.srcArg = source_se, !.tgtArg = rq.target_se]
     IN /\ source_se # Corrupt
        /\ IF Resolve(OutputPath(rq.voice_id)) = NoPath
           THEN req' = req (-) SetToBag({rq}) /\ Raise(called, "convert")
           ELSE Continue(rq, [called EXCEPT !.pc = "convopen",
                                            !.out = Convert(wav, source_se, rq.target_se)])
  /\ SpeakSeen
  /\ UNCHANGED <<fs, ops, spk2id, stored>>

\* line 136: the converter opens output_path for writing
SpeakConvertOpen(rq) ==
  /\ rq.kind = "speak" /\ rq.pc = "convopen"
  /\ fs' = Put(fs, OutputPath(rq.voice_id), <<>>)
  /\ Continue(rq, [rq EXCEPT !.pc = "convwrite", !.pos = 1])
  /\ SpeakSeen
  /\ UNCHANGED <<ops, spk2id, stored>>

\* line 136: the converter writes the next chunk of the output
SpeakConvertWrite(rq) ==
  /\ rq.kind = "speak" /\ rq.pc = "convwrite"
  /\ LET path == OutputPath(rq.voice_id)
     IN /\ fs' = Put(fs, path, WriteAt(Contents(fs, path), rq.pos, Serialize(rq.out)[rq.pos]))
        /\ Continue(rq, [rq EXCEPT !.pos = rq.pos + 1,
                                   !.pc = IF rq.pos = FileLen THEN "send" ELSE "convwrite"])
  /\ SpeakSeen
  /\ UNCHANGED <<ops, spk2id, stored>>

\* lines 131-141 raising, caught at line 151: torch.load of the base
\* speaker embedding, or the converter at any point of its call
SpeakConvertFail(rq) ==
  /\ rq.kind = "speak" /\ rq.pc \in {"convert", "convopen", "convwrite"}
  /\ req' = req (-) SetToBag({rq})
  /\ LET source_se == LoadEmbedding(fs, BASE_SE_PATH)
     IN IF rq.pc = "convert" /\ source_se = Corrupt
        THEN Raise(rq, "base")
        ELSE Raise([rq EXCEPT !.convCalls = 1,
                              !.srcArg = IF rq.pc = "convert" THEN source_se ELSE rq.srcArg,
                              !.tgtArg = rq.target_se], "convert")
  /\ SpeakSeen
  /\ UNCHANGED <<fs, ops, spk2id, stored>>

\* lines 144-149: send_file(output_path)
SpeakSend(rq) ==
  /\ rq.kind = "speak" /\ rq.pc = "send"
  /\ Respond(rq, [rq EXCEPT !.status = 200, !.body = Contents(fs, OutputPath(rq.voice_id))])
  /\ SpeakSeen
  /\ UNCHANGED <<fs, ops, spk2id, stored>>

(* ----------------------------- the system ------------------------------ *)
Next ==
  \/ CloneNoFile
  \/ CloneSaveFail
  \/ CloneStart
  \/ CloneExtractFail
  \/ \E rq \in InFlight : CloneOpen(rq)
  \/ \E rq \in InFlight : CloneOpenFail(rq)
  \/ \E rq \in InFlight : CloneWrite(rq)
  \/ \E rq \in InFlight : CloneWriteFail(rq)
  \/ SpeakNoText
  \/ SpeakStart
  \/ \E rq \in InFlight : SpeakTTSOpen(rq)
  \/ \E rq \in InFlight : SpeakTTSWrite(rq)
  \/ \E rq \in InFlight : SpeakTTSFail(rq)
  \/ \E rq \in InFlight : SpeakConvertRead(rq)
  \/ \E rq \in InFlight : SpeakConvertOpen(rq)
  \/ \E rq \in InFlight : SpeakConvertWrite(rq)
  \/ \E rq \in InFlight : SpeakConvertFail(rq)
  \/ \E rq \in InFlight : SpeakSend(rq)
  \/ ListVoices

Spec == Init /\ [][Next]_vars

\* a step of a speak request
SpeakStep ==
  \/ SpeakNoText
  \/ SpeakStart
  \/ \E rq \in InFlight :
       \/ SpeakTTSOpen(rq) \/ SpeakTTSWrite(rq) \/ SpeakTTSFail(rq)
       \/ SpeakConvertRead(rq) \/ SpeakConvertOpen(rq) \/ SpeakConvertWrite(rq)
       \/ SpeakConvertFail(rq) \/ SpeakSend(rq)

TypeOK ==
  /\ ops \in 0..MaxOps
  /\ BagCardinality(req) <= MaxReqs
  /\ \A q \in InFlight : q.kind \in {"clone", "speak"}
  /\ \A p \in DOMAIN fs : Len(fs[p]) <= FileLen

(* ------------------------------ properties ----------------------------- *)
StoredEmbeddings == { Embedding(e) : e \in Embeddings }

\* the transient working files an in-flight request is using: the copy of
\* the upload (lines 67-94), the stage-2 waveform (lines 121-141)
TransientFiles(q) ==
  IF q.kind = "clone" THEN {q.tmp_path}
  ELSE IF q.kind = "speak" /\ q.pc \in {"ttswrite", "convert"} THEN {SrcPath}
  ELSE {}

\* C1: every speak request that found the embedding file of its key obtained
\* one complete embedding that was written in full (by a clone, or the
\* provisioned one when the key leads there), never a truncated or mixed one
C1_NoPartialIdentity ==
  resp.kind = "speak" /\ resp.resolved = "yes" =>
    resp.target_se \in StoredEmbeddings \cup {BaseSE}

\* C2: a speak request that loads key k while the last completed clone write
\* of k stored e, with no write to k since, resolves e and hands e to the
\* Tone Converter as the target embedding
C2_RoundTrip ==
  /\ resp.kind = "speak" /\ resp.storedAtLoad # None =>
       /\ resp.target_se = resp.storedAtLoad
       /\ resp.convCalls > 0 => resp.tgtArg = resp.storedAtLoad
  /\ \A q \in InFlight : q.kind = "speak" /\ q.storedAtLoad # None =>
       /\ q.target_se = q.storedAtLoad
       /\ q.convCalls > 0 => q.tgtArg = q.storedAtLoad

\* a speak request was answered with the audio made from an embedding that a
\* clone of this run stored
C2_Witness ==
  /\ resp.kind = "speak" /\ resp.status = 200
  /\ resp.storedAtLoad = Embedding("e2")
  /\ resp.tgtArg = Embedding("e2")

\* C3: a speak request whose key has no embedding file is answered 404 at
\* once, with neither the synthesizer nor the converter called
C3_FailFast ==
  /\ resp.kind = "speak" /\ resp.resolved = "no" =>
       resp.status = 404 /\ resp.ttsCalls = 0 /\ resp.convCalls = 0
  /\ \A q \in InFlight : q.kind = "speak" => q.resolved = "yes"

C3_Witness ==
  /\ resp.kind = "speak" /\ resp.resolved = "no" /\ resp.status = 404
  /\ VoicesOf(fs) # {}

\* C4: a speak request whose synthesizer or converter call failed is answered
\* with an error and no audio, also when an output file of an earlier
\* request exists
C4_AllOrNothing ==
  resp.kind = "speak" /\ (resp.failedAt \in {"tts", "convert"}) =>
    resp.status = 500 /\ resp.body = <<>>

\* the converter failed while the complete output of an earlier request is on disk
C4_Witness ==
  /\ resp.kind = "speak" /\ resp.failedAt = "convert" /\ resp.status = 500
  /\ Exists(fs, OutputPath(resp.voice_id))
  /\ Parse(Contents(fs, OutputPath(resp.voice_id))) # Corrupt

\* C5: the audio a successful speak request returns is the complete output
\* of the converter applied to the waveform synthesized from its own text
C5_RequestIsolation ==
  resp.kind = "speak" /\ resp.status = 200 =>
    resp.body = Serialize(Convert(Synth(resp.text, resp.speaker, resp.speed),
                                  BaseSE, resp.target_se))

\* C6: no two in-flight requests use the same transient file name
C6_UniqueTransientFiles ==
  /\ \A q1, q2 \in InFlight : q1 # q2 => TransientFiles(q1) \cap TransientFiles(q2) = {}
  /\ \A q \in InFlight : CopiesIn(q, req) > 1 => TransientFiles(q) = {}

\* C7: a clone request that failed, with no other clone request in flight
\* while it ran, leaves the listed keys and the embedding each resolves to
\* as they were when it started
C7_FailedCloneCommitsNothing ==
  resp.kind = "clone" /\ resp.status # 200 /\ ~resp.overlap => ~resp.changed

\* C8: when a clone request has finished, the temporary copy of the upload
\* it created no longer exists
C8_TempReleased ==
  resp.kind = "clone" => ~resp.tmpLeft

\* C9: the key a successful clone returns is voice_ followed by the name of
\* the uploaded sample without its extension
C9_KeyFromSampleName ==
  resp.kind = "clone" /\ resp.status = 200 =>
    resp.voice_id = <<"voice_">> \o RSplitExt(resp.name)

\* C10: two list_voices responses with no clone request starting, running
\* or finishing between them are the same set of keys
C10_IdempotentListing ==
  listing.n = 2 => listing.last = listing.prev

\* two such responses with a voice stored and a speak request at work between them
C10_Witness ==
  /\ listing.n = 2 /\ listing.spoke /\ listing.last # {}
  /\ Exists(fs, SrcPath)

\* C11: last-writer-wins overwrite. No two clone requests in flight write the
\* same key, and when a clone request that had the key to itself has
\* finished, a lookup of the key returns the embedding of the write that
\* completed last: its own when it completed, else the one it found
\* completed under the key (prior)
C11_LastWriterWins ==
  /\ \A q1, q2 \in InFlight :
       q1.kind = "clone" /\ q2.kind = "clone" /\ q1 # q2 => q1.voice_id # q2.voice_id
  /\ \A q \in InFlight : q.kind = "clone" => CopiesIn(q, req) = 1
  /\ resp.kind = "clone" /\ (resp.status = 200 \/ resp.prior # None) =>
       LoadEmbedding(fs, EmbeddingPath(resp.voice_id)) =
         IF resp.status = 200 THEN resp.target_se ELSE resp.prior

\* C12: bad input is reported as bad input. A speak request whose text is
\* missing or empty, or whose speed is not positive, is answered 400 (not
\* 404, not 500) and the synthesizer is never called for it
C12_BadInputRejected ==
  /\ resp.kind = "speak" /\ (resp.text = "" \/ resp.speed <= 0) =>
       resp.status = 400 /\ resp.ttsCalls = 0
  /\ \A q \in InFlight :
       q.kind = "speak" /\ (q.text = "" \/ q.speed <= 0) => q.ttsCalls = 0

\* what C13 asks of one speak request q, in flight or answered
StagesInOrder(q) ==
  /\ q.ttsCalls <= 1 /\ q.convCalls <= 1
  /\ q.ttsCalls > 0 => q.resolved = "yes" /\ q.target_se \notin {None, Corrupt}
  /\ q.convCalls > 0 => q.ttsCalls = 1 /\ q.ttsOk
  /\ q.failedAt \in {"validate", "lookup", "load"} => q.ttsCalls = 0 /\ q.convCalls = 0
  /\ q.failedAt \in {"tts", "base"} => q.convCalls = 0

\* C13: stage order and no retry. In every speak request the synthesizer is
\* called at most once and only after the lookup succeeded, the converter at
\* most once and only after the synthesizer call succeeded, and a request
\* with a failed stage is answered without a further stage being called
C13_StageOrderNoRetry ==
  /\ resp.kind = "speak" => StagesInOrder(resp)
  /\ \A q \in InFlight : q.kind = "speak" => StagesInOrder(q) /\ q.failedAt = ""

\* a request with valid input whose synthesizer call failed has been
\* answered, the output of an earlier request of the voice being there
C13_Witness ==
  /\ resp.kind = "speak" /\ resp.text = "hello" /\ resp.speed = 1
  /\ resp.failedAt = "tts" /\ resp.ttsCalls = 1 /\ resp.convCalls = 0
  /\ Exists(fs, OutputPath(resp.voice_id))

\* C14: the source embedding handed to the converter is the Base Speaker
\* Reference of the speaker the synthesizer was called with in that request
\* (the first of the declared speaker set, whichever set is declared)
C14_SourceMatchesSpeaker ==
  /\ resp.kind = "speak" /\ resp.convCalls > 0 =>
       resp.speaker = spk2id[1] /\ resp.srcArg = BaseSEOf(resp.speaker)
  /\ \A q \in InFlight : q.kind = "speak" /\ q.convCalls > 0 =>
       q.speaker = spk2id[1] /\ q.srcArg = BaseSEOf(q.speaker)

\* C15: a speak request releases its intermediate waveform on every exit
\* path. When a speak request that called the synthesizer, and so wrote
\* src_path, has been answered and no other speak request is in flight,
\* the file does not exist
C15_WaveformReleased ==
  /\ resp.kind = "speak" /\ resp.ttsOk
  /\ \A q \in InFlight : q.kind # "speak"
  => ~Exists(fs, SrcPath)

\* C16: speak leaves the Voice Identity Store unchanged. No step of a speak
\* request, whatever its text and key and whether it ends in success or in
\* failure, changes the keys list_voices returns or the embedding a key
\* resolves to
C16_SpeakLeavesStore ==
  [][fs' = fs \/ StoreView(fs') = StoreView(fs) \/ ~SpeakStep]_vars

\* a speak request has been answered with its output, the intermediate
\* waveform and the output file are in OUTPUT_DIR next to the one identity
C16_Witness ==
  /\ resp.kind = "speak" /\ resp.status = 200
  /\ Exists(fs, SrcPath) /\ Exists(fs, OutputPath(resp.voice_id))
  /\ DOMAIN StoreView(fs) = {resp.voice_id}
  /\ StoreView(fs)[resp.voice_id] = resp.target_se

\* C17: identities are durable. The key a successful clone request returns
\* is listed by list_voices, a listed key stays listed through every step of
\* clone, speak and list_voices requests, and no speak request with a listed
\* key is answered 404
C17_Durable ==
  [][ /\ resp'.kind = "clone" /\ resp'.status = 200 => resp'.voice_id \in VoicesOf(fs')
      /\ fs' = fs \/ \A k \in VoicesOf(fs) : k \in VoicesOf(fs')
      /\ resp'.kind = "speak" /\ resp'.status = 404 => resp'.voice_id \notin VoicesOf(fs)
    ]_vars

\* a speak request found the key a clone request of this run returned
\* (the voices of earlier runs hold e1), and the key is listed
C17_Witness ==
  /\ resp.kind = "speak" /\ resp.resolved = "yes" /\ resp.status # 404
  /\ resp.voice_id \in VoicesOf(fs)
  /\ resp.voice_id \in DOMAIN stored /\ stored[resp.voice_id] = Embedding("e2")

\* C18: lookup and enumeration agree on what an identity is. A speak request
\* resolves its key, whatever string it is, to an embedding only if
\* list_voices returns the key
C18_LookupAgreesWithListing ==
  /\ resp.kind = "speak" /\ resp.resolved = "yes" => resp.voice_id \in VoicesOf(fs)
  /\ \A q \in InFlight : q.kind = "speak" /\ q.resolved = "yes" => q.voice_id \in VoicesOf(fs)

====
